---- MODULE Spec2Model ----
(***************************************************************************)
(* Vanilla shell of MFESample: the microfrontend loader (mfe-loader.js),   *)
(* the history router (router.js) and the route handlers of main.js.       *)
(*                                                                         *)
(* Every async function call is a task.  A task runs from one await to the *)
(* next in one step; a call made without a yield in between (loadMFE       *)
(* calling unloadMFE, navigate calling its handler) runs its first segment *)
(* inside the caller's step.  What the remote and the network answer       *)
(* (initFederation, loadRemoteModule, mount, unmount) is chosen by the     *)
(* environment when the awaited promise settles.                           *)
(*                                                                         *)
(* The page's index.html is not part of the sources at hand: the element   *)
(* #mfe-container is taken to lie outside #content, so that renderHome     *)
(* empties it and leaves it in the document.  A container element handed   *)
(* to loadMFE by a caller ("el") is not attached to the document, as in    *)
(* the lifecycle property test of design.md.                               *)
(*                                                                         *)
(* location is window.location.pathname, activeLink the navigation link    *)
(* of class 'active' (navigation.js).  The notifications of                *)
(* error-boundary.js are modelled with the global error handler set up;    *)
(* each timer that was set is a step of its own.  handle is the result of  *)
(* a loadMFE call that its caller has kept.  _loadManifest (the loader      *)
(* version of main.js that reads the manifest) and the bootstrap module of *)
(* MFE1 (QUICKSTART.md) have their own variables and specifications.       *)
(***************************************************************************)
EXTENDS Integers, Sequences, FiniteSets, TLC

\* Number of calls made from outside (loadMFE, unloadMFE, navigate) when
\* each call settles before the next one starts.
MaxCalls == 3

\* Number of calls made from outside when a call may start while earlier
\* ones are pending.
MaxOverlap == 2

\* Number of error notifications shown.
MaxNotes == 3

Null == "null"

\* Remote names handed to loadMFE / unloadMFE.
Names == {"mfe1", "mfe2"}

\* The divs _getOrCreateContainer makes for a selector that matches
\* nothing, in the order of their making: at most one per outside call.
DivSeq == <<"div1", "div2", "div3", "div4", "div5", "div6">>

Divs == {DivSeq[i] : i \in 1..MaxCalls}

\* DOM elements used as containers: "sel" is the element matched by the
\* selector '#mfe-container', "el" an element owned by the caller, and the
\* divs made for the selector 'mfe-container'.
Containers == {"sel", "el"} \cup Divs

\* containerSelector arguments: a selector string, an HTMLElement, and a
\* value that is neither (null).
Selectors == {"#sel", "el", "null"}

\* Paths handed to navigate; "/nope" is not registered.
Paths == {"/", "/home", "/mfe1", "/nope"}

\* The keys of the route table: the paths above and the '/mfe2' of the
\* README's "Adding New Microfrontends".
AllPaths == Paths \cup {"/mfe2"}

\* Each outside call runs at most three tasks (navigate, loadMFE, unloadMFE).
TaskIds == 1..(3 * MaxCalls)

\* The calls of MFE1's mount, in the order they are made.
MountIds == 1..MaxCalls

\* The calls of _loadManifest, in the order they are made.
ManifestIds == 1..MaxCalls

\* Each outside call invokes a remote's mount function at most once.
InstIds == 1..MaxCalls

\* The notification elements showErrorNotification makes, in the order of
\* their making.
NoteIds == 1..MaxNotes

VARIABLES
  loadedMFEs,            \* MFELoader.loadedMFEs: name -> metadata
  currentMFE,            \* MFELoader.currentMFE
  federationInitialized, \* MFELoader.federationInitialized
  dom,                   \* the container elements and their children
  currentRoute,          \* Router.currentRoute
  history,               \* entries pushed with window.history.pushState
  location,              \* window.location.pathname
  activeLink,            \* path of the nav link carrying class 'active'
  routes,                \* Router.routes: path -> handler
  isInitialized,         \* Router.isInitialized
  listeners,             \* number of popstate listeners added by init
  lastSucceeded,         \* path of the last navigation whose handler has
                         \* completed without throwing
  tasks,                 \* the pending async calls
  inst,                  \* the instances made by the remotes' mount functions
  notes,                 \* the error notifications and their timers
  handle,                \* the result of a loadMFE call its caller has kept
  manifest,              \* the calls of _loadManifest
  mfe1,                  \* the bootstrap module of MFE1 and its mount calls
  ncalls,                \* number of outside calls made so far
  ev                     \* what the last step did

vars == <<loadedMFEs, currentMFE, federationInitialized, dom, currentRoute,
          history, location, activeLink, routes, isInitialized, listeners,
          lastSucceeded, tasks, inst, notes, handle, manifest, mfe1, ncalls,
          ev>>

----------------------------------------------------------------------------
\* Values

\* A name without an entry in the map.
NoEntry == [container |-> Null, instance |-> "none", id |-> 0]

EmptyMap == [n \in Names |-> NoEntry]

\* A slot of the task table that holds no call.
FreeTask ==
  [kind |-> "free", pc |-> "-", name |-> Null, sel |-> Null,
   container |-> Null, instance |-> "none", id |-> 0, parent |-> 0,
   call |-> 0, path |-> Null, requested |-> Null, skip |-> FALSE,
   origin |-> "-", invoked |-> 0, awaited |-> TRUE,
   preLoaded |-> EmptyMap, preCurrent |-> Null]

NoEvent ==
  [type |-> "none", name |-> Null, sel |-> Null, container |-> Null,
   instance |-> "none", id |-> 0, call |-> 0, path |-> Null, ok |-> TRUE,
   cause |-> "-", top |-> FALSE, requested |-> Null, shown |-> Null,
   origin |-> "-", handler |-> "-", recovery |-> "-", skip |-> FALSE,
   invoked |-> 0, awaited |-> TRUE, pushed |-> 0, error |-> "-",
   displayed |-> "-", preLoaded |-> EmptyMap, preCurrent |-> Null]

\* No result of loadMFE is kept.
NoHandle == [name |-> Null, id |-> 0]

\* A slot of the instance table that holds no instance.
FreeInst ==
  [name |-> Null, container |-> Null, result |-> "free", tdCalls |-> 0,
   tdDone |-> FALSE]

\* The state as one record, so that a call made inside a step can be
\* applied to the state its caller has produced so far.
St ==
  [loadedMFEs |-> loadedMFEs, currentMFE |-> currentMFE,
   federationInitialized |-> federationInitialized, dom |-> dom,
   currentRoute |-> currentRoute, history |-> history,
   location |-> location,
   activeLink |-> activeLink, routes |-> routes,
   isInitialized |-> isInitialized, listeners |-> listeners,
   lastSucceeded |-> lastSucceeded, tasks |-> tasks, inst |-> inst,
   ev |-> ev]

\* Something still refers to instance i: a map entry, a pending call (its
\* own instance or the entries it found when it started), its root element
\* in a container, or the last step.
Referenced(S, i) ==
  \/ \E n \in Names : S.loadedMFEs[n].id = i
  \/ \E t \in TaskIds : S.tasks[t].id = i
  \/ \E t \in TaskIds, n \in Names : S.tasks[t].preLoaded[n].id = i
  \/ \E c \in Containers : i \in S.dom[c].apps
  \/ S.ev.id = i
  \/ \E n \in Names : S.ev.preLoaded[n].id = i
  \/ handle.id = i

\* The record of an instance is dropped when its mount has failed or its
\* teardown has run exactly once and to the end, and nothing refers to it.
\* An instance that was never torn down, or was torn down twice, stays.
Forgotten(S, i) ==
  /\ S.inst[i].result # "free"
  /\ \/ S.inst[i].result = "failed"
     \/ S.inst[i].tdCalls = 1 /\ S.inst[i].tdDone
  /\ ~Referenced(S, i)

\* The next state is S (the record is computed once).
Commit(S) ==
  \E X \in {S} :
    /\ loadedMFEs' = X.loadedMFEs
    /\ currentMFE' = X.currentMFE
    /\ federationInitialized' = X.federationInitialized
    /\ dom' = X.dom
    /\ currentRoute' = X.currentRoute
    /\ history' = X.history
    /\ location' = X.location
    /\ activeLink' = X.activeLink
    /\ routes' = X.routes
    /\ isInitialized' = X.isInitialized
    /\ listeners' = X.listeners
    /\ lastSucceeded' = X.lastSucceeded
    /\ tasks' = X.tasks
    /\ inst' = [i \in InstIds |-> IF Forgotten(X, i) THEN FreeInst
                                  ELSE X.inst[i]]
    /\ ev' = [X.ev EXCEPT !.pushed = Len(X.history) - Len(history)]
    /\ notes' = notes
    /\ handle' = handle
    /\ manifest' = manifest
    /\ mfe1' = mfe1

Busy(S) == {t \in TaskIds : S.tasks[t].kind # "free"}

\* A task whose awaited promise has settled: its continuation is a
\* microtask, and the event loop runs microtasks before it delivers a further
\* event (a click, a network answer, a timer).
RunnablePc ==
  {"L_unloaded", "L_store", "N_loadDone", "N_handlerDone", "N_handlerFailed"}

Runnable(t) == tasks[t].pc \in RunnablePc

\* The microtask queue is empty.
Drained == \A t \in TaskIds : ~Runnable(t)

NewInst(S) == CHOOSE i \in InstIds : S.inst[i].result = "free" /\
                 \A j \in InstIds : S.inst[j].result = "free" => i <= j

NewTask(S) == CHOOSE t \in TaskIds : S.tasks[t].kind = "free" /\
                 \A u \in TaskIds : S.tasks[u].kind = "free" => t <= u

\* element.innerHTML = ''
EmptyElement(e) == [e EXCEPT !.apps = {}, !.fallback = Null]

\* The promise of task t settles: a caller awaiting it becomes runnable at
\* resume and learns whether it was fulfilled (e.ok, but for unloadMFE,
\* which is always fulfilled); the slot is released.
Settle(S, t, resume, e) ==
  LET p == S.tasks[t].parent IN
  [S EXCEPT !.tasks = [u \in TaskIds |->
                         IF u = t THEN FreeTask
                         ELSE IF u = p
                         THEN [S.tasks[u] EXCEPT
                                 !.pc = resume,
                                 !.awaited = e.ok \/ e.type = "unloadSettled"]
                         ELSE S.tasks[u]],
            !.ev = [e EXCEPT !.top = (p = 0)]]

----------------------------------------------------------------------------
\* MFELoader.unloadMFE

\* typeof instance.unmount === 'function'
HasUnmount(h) == h \in {"unmount", "default"}

\* typeof instance.destroy === 'function'
HasDestroy(h) == h = "destroy"

\* unloadMFE from line 106 on: the teardown has returned.
unloadMFE_finish(S, t, name, m) ==
  LET S1 == [S EXCEPT
               !.dom = IF S.dom[m.container].attached
                       THEN [@ EXCEPT ![m.container] = EmptyElement(@)]
                       ELSE @,
               !.loadedMFEs = [@ EXCEPT ![name] = NoEntry],
               !.currentMFE = IF @ = name THEN Null ELSE @]
  IN Settle(S1, t, "L_unloaded",
            [NoEvent EXCEPT !.type = "unloadSettled", !.name = name,
                            !.container = m.container, !.instance = m.instance,
                            !.id = m.id, !.call = S.tasks[t].call,
                            !.ok = TRUE, !.cause = "unloaded"])

\* A catch block that only reports the failure and keeps the entry.
unloadMFE_catch_keeping(S, t, name, m) ==
  Settle(S, t, "L_unloaded",
         [NoEvent EXCEPT !.type = "unloadSettled", !.name = name,
                         !.container = m.container, !.instance = m.instance,
                         !.id = m.id, !.call = S.tasks[t].call,
                         !.ok = FALSE, !.cause = "threw"])

\* unloadMFE, the catch block: the teardown has thrown.
unloadMFE_catch(S, t, name, m) ==
  LET S1 == [S EXCEPT !.loadedMFEs = [@ EXCEPT ![name] = NoEntry]]
  IN Settle(S1, t, "L_unloaded",
            [NoEvent EXCEPT !.type = "unloadSettled", !.name = name,
                            !.container = m.container, !.instance = m.instance,
                            !.id = m.id, !.call = S.tasks[t].call,
                            !.ok = FALSE, !.cause = "threw"])

\* An early return that also forgets the current MFE.
unloadMFE_notLoaded_resetting(S, name, parent, call) ==
  [S EXCEPT !.currentMFE = Null,
            !.ev = [NoEvent EXCEPT !.type = "unloadSettled",
                      !.name = name, !.ok = FALSE, !.cause = "notLoaded",
                      !.call = call, !.top = (parent = 0)]]

\* unloadMFE, lines 89-92: the name is not loaded, return false.
unloadMFE_notLoaded(S, name, parent, call) ==
  [S EXCEPT !.ev = [NoEvent EXCEPT !.type = "unloadSettled",
                      !.name = name, !.ok = FALSE, !.cause = "notLoaded",
                      !.call = call, !.top = (parent = 0)]]

\* unloadMFE up to its await: the early return for a name that is not
\* loaded, else the call of the stored teardown.
unloadMFE_call(S, name, parent, call) ==
  IF S.loadedMFEs[name] = NoEntry
  THEN unloadMFE_notLoaded(S, name, parent, call)
  ELSE
    LET m == S.loadedMFEs[name]
        t == NewTask(S)
        task == [FreeTask EXCEPT !.kind = "unload", !.pc = "U_await",
                   !.name = name, !.container = m.container,
                   !.instance = m.instance, !.id = m.id, !.parent = parent,
                   !.call = call]
        S1 == [S EXCEPT !.tasks[t] = task,
                        !.ev = [NoEvent EXCEPT !.type = "unloadMFE",
                                  !.name = name, !.call = call,
                                  !.top = (parent = 0)]]
    IN IF HasUnmount(m.instance) \/ HasDestroy(m.instance)
       THEN [S1 EXCEPT
               !.inst[m.id].tdCalls = @ + 1,
               \* the substituted teardown empties the container at once
               !.dom = IF m.instance = "default"
                       THEN [@ EXCEPT ![m.container] = EmptyElement(@)]
                       ELSE @]
       ELSE unloadMFE_finish(S1, t, name, m)

\* The awaited teardown settles: fulfilled (a remote's own teardown has
\* removed its root element) or rejected.
unloadMFE_resume(t, outcome) ==
  /\ tasks[t].kind = "unload" /\ tasks[t].pc = "U_await"
  /\ Drained
  /\ outcome = "threw" => tasks[t].instance # "default"
  /\ LET k == tasks[t]
         m == [container |-> k.container, instance |-> k.instance, id |-> k.id]
         S1 == [St EXCEPT !.inst[k.id].tdDone = TRUE,
                          !.dom[k.container].apps =
                             IF outcome = "ok" THEN @ \ {k.id} ELSE @]
     IN Commit(IF outcome = "ok" THEN unloadMFE_finish(S1, t, k.name, m)
                                 ELSE unloadMFE_catch(S1, t, k.name, m))
  /\ UNCHANGED ncalls

----------------------------------------------------------------------------
\* MFELoader.loadMFE

\* _getOrCreateContainer: the element the argument denotes, null for an
\* argument that is neither an element nor a string.
ContainerOf(sel) ==
  IF sel = "#sel" THEN "sel" ELSE IF sel = "el" THEN "el" ELSE Null

\* The div _getOrCreateContainer makes next.
NewDiv(d) ==
  DivSeq[CHOOSE i \in 1..MaxCalls :
           /\ ~d[DivSeq[i]].attached
           /\ \A j \in 1..(i - 1) : d[DivSeq[j]].attached]

\* _getOrCreateContainer: a selector that matches nothing makes a new div
\* appended to document.body.  The type selector 'mfe-container' of the
\* README's mfe2 route never matches (the divs are no <mfe-container>
\* elements), so every call with it makes a div.
getOrCreateContainer(d, sel) ==
  IF sel = "#sel" /\ ~d["sel"].attached
  THEN [d EXCEPT !["sel"] = [attached |-> TRUE, apps |-> {}, fallback |-> Null]]
  ELSE IF sel = "mfe-container"
  THEN [d EXCEPT ![NewDiv(d)] =
                   [attached |-> TRUE, apps |-> {}, fallback |-> Null]]
  ELSE d

\* _getOrCreateContainer: the element loadMFE goes on with.
containerFor(d, sel) ==
  IF sel = "mfe-container" THEN NewDiv(d) ELSE ContainerOf(sel)

\* _displayError: document.querySelector for a string, else the argument.
DisplayTarget(d, sel) ==
  IF sel = "#sel" THEN (IF d["sel"].attached THEN "sel" ELSE Null)
  ELSE IF sel = "el" THEN "el" ELSE Null

\* containerSelector arguments on which the try block of _displayError
\* throws: an object that is no element ({}: appendChild is not a function)
\* and a string that is no selector ('': querySelector throws).  For both
\* _getOrCreateContainer yields no container.
BadSelectors == {"{}", ""}

\* _displayError, lines 295-325: the try block throws.
displayError_tryFails(sel) == sel \in BadSelectors

\* _displayError, lines 326-338, the catch block: `if (container)` names
\* the const of the try block, which is not in scope there, so the test
\* throws a ReferenceError and the minimal message is never written.
displayError_catch(S, sel, name) == S

\* What _displayError has done when it ends: appended the fallback view
\* ("rich"), found no container ("none"), or thrown ("threw").
displayError_outcome(S, sel) ==
  IF displayError_tryFails(sel) THEN "threw"
  ELSE IF DisplayTarget(S.dom, sel) = Null THEN "none" ELSE "rich"

\* The error loadMFE rejects with: the wrapped error of line 79, or the
\* error _displayError has thrown at line 76.
loadMFE_rejection(S, sel) ==
  IF displayError_outcome(S, sel) = "threw" THEN "ReferenceError"
  ELSE "wrapped"

\* A loader that reports a failed load on the console only.
displayError_consoleOnly(S, sel, name) == S

\* _displayError: empty the container and append the fallback view.
displayError(S, sel, name) ==
  LET c == DisplayTarget(S.dom, sel) IN
  IF displayError_tryFails(sel) THEN displayError_catch(S, sel, name)
  ELSE IF c = Null THEN S
  ELSE [S EXCEPT !.dom[c] = [@ EXCEPT !.apps = {}, !.fallback = name]]

\* A catch block that also forgets the current MFE.
loadMFE_catch_resetting(S, t, cause) ==
  LET k == S.tasks[t] IN
  Settle([displayError(S, k.sel, k.name) EXCEPT !.currentMFE = Null],
         t, "N_loadDone",
         [NoEvent EXCEPT !.type = "loadRejected", !.name = k.name,
            !.sel = k.sel, !.container = k.container, !.id = k.id,
            !.call = k.call, !.ok = FALSE, !.cause = cause,
            !.origin = k.origin,
            !.error = loadMFE_rejection(S, k.sel),
            !.displayed = displayError_outcome(S, k.sel),
            !.preLoaded = k.preLoaded, !.preCurrent = k.preCurrent])

\* loadMFE, the catch block: show the error, reject with the wrapped error.
loadMFE_catch(S, t, cause) ==
  LET k == S.tasks[t] IN
  Settle(displayError(S, k.sel, k.name), t, "N_loadDone",
         [NoEvent EXCEPT !.type = "loadRejected", !.name = k.name,
            !.sel = k.sel, !.container = k.container, !.id = k.id,
            !.call = k.call, !.ok = FALSE, !.cause = cause,
            !.origin = k.origin,
            !.error = loadMFE_rejection(S, k.sel),
            !.displayed = displayError_outcome(S, k.sel),
            !.preLoaded = k.preLoaded, !.preCurrent = k.preCurrent])

\* _importRemoteModule up to its first pending promise: _initFederation
\* returns at once when federationInitialized, so loadRemoteModule is called;
\* otherwise initFederation is called.
importRemoteModule(S, t) ==
  [S EXCEPT !.tasks[t].pc = IF S.federationInitialized THEN "L_awaitImport"
                            ELSE "L_awaitInit"]

\* A loader that skips the test of line 42: it never unloads first.
AlreadyLoaded_never(S, name) == FALSE

\* loadedMFEs.has(name), the test of line 42.
AlreadyLoaded(S, name) == S.loadedMFEs[name] # NoEntry

\* A loader that calls unloadMFE without awaiting it and goes on to import.
awaitUnloadMFE_detached(S, t, name, call) ==
  importRemoteModule(unloadMFE_call(S, name, 0, call), t)

\* loadMFE, line 44: `await this.unloadMFE(name)`; the load goes on when the
\* unload has settled.
awaitUnloadMFE(S, t, name, call) == unloadMFE_call(S, name, t, call)

\* loadMFE up to its first await.
loadMFE_call(S, name, sel, parent, call) ==
  LET t == NewTask(S)
      c == containerFor(S.dom, sel)
      e == [NoEvent EXCEPT !.type = "loadMFE", !.name = name, !.sel = sel,
              !.container = c, !.call = call, !.top = (parent = 0)]
      task == [FreeTask EXCEPT !.kind = "load", !.pc = "L_awaitUnload",
                 !.name = name, !.sel = sel, !.container = c,
                 !.parent = parent, !.call = call,
                 !.preLoaded = S.loadedMFEs, !.preCurrent = S.currentMFE]
      S1 == [S EXCEPT !.tasks[t] = task,
                      !.dom = getOrCreateContainer(@, sel), !.ev = e]
  IN IF c = Null THEN loadMFE_catch(S1, t, "container")
     ELSE IF AlreadyLoaded(S1, name)
          THEN [awaitUnloadMFE(S1, t, name, call) EXCEPT !.ev = e]
          ELSE [importRemoteModule(S1, t) EXCEPT !.ev = e]

Step(t, what) ==
  [NoEvent EXCEPT !.type = what, !.name = tasks[t].name,
     !.container = tasks[t].container, !.call = tasks[t].call,
     !.id = tasks[t].id]

\* loadMFE after `await this.unloadMFE(name)`.
loadMFE_unloaded(t) ==
  /\ tasks[t].kind = "load" /\ tasks[t].pc = "L_unloaded"
  /\ Commit([importRemoteModule(St, t) EXCEPT !.ev = Step(t, "import")])
  /\ UNCHANGED ncalls

\* The promise of initFederation settles (_initFederation, lines 178-190).
initFederation_settled(t, outcome) ==
  /\ tasks[t].kind = "load" /\ tasks[t].pc = "L_awaitInit"
  /\ Drained
  /\ Commit(IF outcome = "ok"
            THEN [St EXCEPT !.federationInitialized = TRUE,
                            !.tasks[t].pc = "L_awaitImport",
                            !.ev = Step(t, "initialized")]
            ELSE loadMFE_catch(St, t, "init"))
  /\ UNCHANGED ncalls

\* A loader that stores the metadata when it calls mount, before the mount
\* has settled.
bootstrapMFE_call_storing(S, t, i) ==
  LET k == S.tasks[t] IN
  [S EXCEPT
     !.inst[i] = [name |-> k.name, container |-> k.container,
                  result |-> "pending", tdCalls |-> 0, tdDone |-> FALSE],
     !.dom[k.container].apps = @ \cup {i},
     !.loadedMFEs[k.name] = [container |-> k.container, instance |-> "default",
                             id |-> i],
     !.tasks[t] = [@ EXCEPT !.pc = "L_awaitMount", !.id = i],
     !.ev = [Step(t, "mount") EXCEPT !.id = i]]

\* _bootstrapMFE, lines 231-242: the module has a mount function and it is
\* called with the container.  As MFE1's mount does, the remote appends its
\* root element at once; i is the instance being made.
bootstrapMFE_call(S, t, i) ==
  LET k == S.tasks[t] IN
  [S EXCEPT
     !.inst[i] = [name |-> k.name, container |-> k.container,
                  result |-> "pending", tdCalls |-> 0, tdDone |-> FALSE],
     !.dom[k.container].apps = @ \cup {i},
     !.tasks[t] = [@ EXCEPT !.pc = "L_awaitMount", !.id = i],
     !.ev = [Step(t, "mount") EXCEPT !.id = i]]

\* The promise of loadRemoteModule settles: a module with a mount function,
\* a module without one, or a rejection.
loadRemoteModule_settled(t, outcome) ==
  /\ tasks[t].kind = "load" /\ tasks[t].pc = "L_awaitImport"
  /\ Drained
  /\ Commit(IF outcome = "module"
            THEN bootstrapMFE_call(St, t, NewInst(St))
            ELSE loadMFE_catch(St, t, IF outcome = "nomount" THEN "nomount"
                                      ELSE "import"))
  /\ UNCHANGED ncalls

\* A loader that stores whatever mount has returned.
bootstrapMFE_result_unchecked(result) == result

\* _bootstrapMFE, lines 246-257: a result without a callable unmount is
\* replaced by the teardown that empties the container.
bootstrapMFE_result(result) ==
  IF result = "unmount" THEN "unmount" ELSE "default"

\* The promise of the remote's mount settles.
mount_settled(t, outcome) ==
  /\ tasks[t].kind = "load" /\ tasks[t].pc = "L_awaitMount"
  /\ Drained
  /\ LET k == tasks[t] IN
     Commit(
       IF outcome = "reject"
       THEN loadMFE_catch([St EXCEPT !.inst[k.id].result = "failed"], t, "mount")
       ELSE [St EXCEPT !.inst[k.id].result = outcome,
                       !.tasks[t] = [@ EXCEPT !.pc = "L_store",
                                       !.instance = bootstrapMFE_result(outcome)],
                       !.ev = Step(t, "mounted")])
  /\ UNCHANGED ncalls

\* loadMFE, lines 53-70: store the metadata and resolve.
loadMFE_store(t) ==
  /\ tasks[t].kind = "load" /\ tasks[t].pc = "L_store"
  /\ LET k == tasks[t]
         S1 == [St EXCEPT
                  !.loadedMFEs[k.name] = [container |-> k.container,
                                          instance |-> k.instance, id |-> k.id],
                  !.currentMFE = k.name]
     IN Commit(Settle(S1, t, "N_loadDone",
                 [NoEvent EXCEPT !.type = "loadResolved", !.name = k.name,
                    !.sel = k.sel, !.container = k.container,
                    !.instance = k.instance, !.id = k.id, !.call = k.call,
                    !.origin = k.origin,
                    !.preLoaded = k.preLoaded, !.preCurrent = k.preCurrent]))
  /\ UNCHANGED ncalls

----------------------------------------------------------------------------
\* main.js: the route handlers, as registered by initApp

\* router.register('/', ...), ('/home', ...), ('/mfe1', ...)
Registered == {"/", "/home", "/mfe1"}

\* The route table initApp builds: the wrapped renderHome and renderMFE1.
InitialRoutes ==
  [p \in AllPaths |-> IF p = "/mfe1" THEN "renderMFE1"
                   ELSE IF p \in Registered THEN "renderHome" ELSE "none"]

\* Handlers a later router.register call may store: a function that
\* returns, one that throws, and one that returns a rejected promise.
Stubs == {"ok", "throws", "rejects"}

\* A renderHome that fails when currentMFE names an MFE without an entry.
renderHome_failingWhenStale(S, t) ==
  IF S.currentMFE # Null /\ S.loadedMFEs[S.currentMFE] = NoEntry
  THEN [S EXCEPT !.tasks[t].pc = "N_handlerFailed"]
  ELSE LET call == S.tasks[t].call
           S1 == IF S.currentMFE # Null
                 THEN unloadMFE_call(S, S.currentMFE, 0, call) ELSE S
       IN [S1 EXCEPT
             !.dom = IF @["sel"].attached
                     THEN [@ EXCEPT !["sel"] = EmptyElement(@)] ELSE @,
             !.activeLink = "/",
             !.tasks[t].pc = "N_handlerDone"]

\* renderHome, wrapped by withErrorBoundary: unloads the current MFE
\* without awaiting it, empties #mfe-container, marks the home link.
renderHome(S, t) ==
  LET call == S.tasks[t].call
      S1 == IF S.currentMFE # Null
            THEN unloadMFE_call(S, S.currentMFE, 0, call) ELSE S
  IN [S1 EXCEPT
        !.dom = IF @["sel"].attached
                THEN [@ EXCEPT !["sel"] = EmptyElement(@)] ELSE @,
        !.activeLink = "/",
        !.tasks[t].pc = "N_handlerDone"]

\* A handler that does not call loadMFE while another loadMFE is pending.
renderMFE1_whenNoLoadPending(S, t) ==
  LET S1 == [S EXCEPT
               !.dom = [@ EXCEPT !["sel"] =
                          [attached |-> TRUE, apps |-> {}, fallback |-> Null]],
               !.tasks[t].pc = "N_awaitLoad"]
  IN IF \E u \in TaskIds : S.tasks[u].kind = "load"
     THEN [S1 EXCEPT !.tasks[t].pc = "N_loadDone"]
     ELSE loadMFE_call(S1, "mfe1", "#sel", t, S.tasks[t].call)

\* renderMFE1 up to `await mfeLoader.loadMFE('mfe1', '#mfe-container')`.
renderMFE1(S, t) ==
  LET S1 == [S EXCEPT
               !.dom = [@ EXCEPT !["sel"] =
                          [attached |-> TRUE, apps |-> {}, fallback |-> Null]],
               !.tasks[t].pc = "N_awaitLoad"]
  IN loadMFE_call(S1, "mfe1", "#sel", t, S.tasks[t].call)

\* The handler of the README's mfe2 route up to
\* `await mfeLoader.loadMFE('mfe2', 'mfe-container')`.
renderMFE2(S, t) ==
  loadMFE_call([S EXCEPT !.tasks[t].pc = "N_awaitLoad"], "mfe2",
               "mfe-container", t, S.tasks[t].call)

\* routes.get(path), called: what the handler does up to the point where
\* `await handler(path)` suspends navigate.  A handler that throws at once
\* leaves the state as it is.
handler(S, t, path) ==
  LET h == S.routes[path]
      S0 == [S EXCEPT !.tasks[t].invoked = @ + 1]
  IN IF h = "renderMFE1" THEN renderMFE1(S0, t)
     ELSE IF h = "renderMFE2" THEN renderMFE2(S0, t)
     ELSE IF h = "renderHome" THEN renderHome(S0, t)
     ELSE IF h = "ok" THEN [S0 EXCEPT !.tasks[t].pc = "N_handlerDone"]
     ELSE IF h = "rejects" THEN [S0 EXCEPT !.tasks[t].pc = "N_handlerFailed"]
     ELSE S0

----------------------------------------------------------------------------
\* Router.navigate

RECURSIVE navigate_call(_, _, _, _, _)

\* A catch block that puts back the route of the last navigation that
\* succeeded.
navigate_catch_restoring(S, t) ==
  LET k == S.tasks[t] IN
  Settle([S EXCEPT !.currentRoute = S.lastSucceeded], t, "-",
    [NoEvent EXCEPT !.type = "navSettled", !.path = k.path,
       !.requested = k.requested, !.call = k.call, !.origin = k.origin,
       !.skip = k.skip, !.ok = TRUE, !.cause = "handlerFailed",
       !.handler = S.routes[k.path], !.invoked = k.invoked])

\* A catch block that logs the error and never navigates home.
navigate_catch_swallowing(S, t) ==
  LET k == S.tasks[t] IN
  Settle(S, t, "-",
    [NoEvent EXCEPT !.type = "navSettled", !.path = k.path,
       !.requested = k.requested, !.call = k.call, !.origin = k.origin,
       !.skip = k.skip, !.ok = TRUE, !.cause = "handlerFailed",
       !.handler = S.routes[k.path], !.invoked = k.invoked])

\* A test that spares only '/': a failing '/home' navigates home too.
recoversFrom_allButRoot(path) == path # "/"

\* navigate, line 55: `path !== '/' && path !== '/home'`.
recoversFrom(path) == path \notin {"/", "/home"}

\* navigate, lines 50-68: the handler has thrown or rejected.  For a path
\* other than '/' and '/home' navigate('/') is called and not awaited; for
\* these two the error is thrown again and the outer catch logs it.  Either
\* way navigate returns normally.
navigate_catch(S, t) ==
  LET k == S.tasks[t]
      recovers == recoversFrom(k.path)
      S1 == IF recovers THEN navigate_call(S, "/", FALSE, k.call, "recovery")
            ELSE S
  IN Settle(S1, t, "-",
       [NoEvent EXCEPT !.type = "navSettled", !.path = k.path,
          !.requested = k.requested, !.call = k.call, !.origin = k.origin,
          !.skip = k.skip, !.ok = TRUE, !.cause = "handlerFailed",
          !.handler = S.routes[k.path], !.invoked = k.invoked,
          !.awaited = k.awaited,
          !.recovery = IF recovers THEN S1.ev.handler ELSE "-"])

\* A navigate that takes every path as it is given.
resolvePath_asGiven(S, path) == path

\* navigate, lines 33-36: a path without a route is replaced by '/'.
resolvePath(S, path) == IF S.routes[path] # "none" THEN path ELSE "/"

\* A navigate that does not store the route.
storeCurrentRoute_skipped(S, p) == S

\* this.currentRoute = path, line 44.
storeCurrentRoute(S, p) == [S EXCEPT !.currentRoute = p]

\* navigate up to `await handler(path)`, and through its catch blocks when
\* the handler throws at once.
navigate_call(S, path, skipPushState, call, origin) ==
  LET p == resolvePath(S, path)
      h == S.routes[p]
      t == NewTask(S)
      task == [FreeTask EXCEPT !.kind = "nav", !.pc = "N_start", !.path = p,
                 !.call = call, !.requested = path, !.skip = skipPushState,
                 !.origin = origin]
      S1 == [storeCurrentRoute(S, p) EXCEPT
               !.history = IF skipPushState THEN @ ELSE Append(@, p),
               !.location = IF skipPushState THEN @ ELSE p,
               !.tasks[t] = task]
      e == [NoEvent EXCEPT !.type = "navigate", !.path = p, !.call = call,
              !.top = TRUE, !.requested = path,
              !.shown = S.dom["sel"].fallback,
              !.preLoaded = S.loadedMFEs, !.preCurrent = S.currentMFE,
              !.origin = origin, !.skip = skipPushState, !.handler = h,
              !.cause = IF h \in {"renderMFE1", "renderMFE2", "renderHome"}
                        THEN h ELSE "stub"]
  IN IF h \in {"throws", "none"}
     THEN navigate_catch([handler(S1, t, p) EXCEPT !.ev = e], t)
     ELSE [handler(S1, t, p) EXCEPT !.ev = e]

\* A renderMFE1 whose catch block throws the error of loadMFE again.
renderMFE1_resume_rethrowing(t) ==
  /\ tasks[t].kind = "nav" /\ tasks[t].pc = "N_loadDone"
  /\ routes[tasks[t].path] = "renderMFE1"
  /\ Commit(IF tasks[t].awaited
            THEN Settle([St EXCEPT !.activeLink = "/mfe1",
                                   !.lastSucceeded = tasks[t].path], t, "-",
                   [NoEvent EXCEPT !.type = "navSettled",
                      !.path = tasks[t].path, !.call = tasks[t].call,
                      !.requested = tasks[t].requested,
                      !.origin = tasks[t].origin, !.skip = tasks[t].skip,
                      !.handler = routes[tasks[t].path], !.cause = "handled",
                      !.invoked = tasks[t].invoked,
                      !.awaited = tasks[t].awaited])
            ELSE navigate_catch([St EXCEPT !.activeLink = "/mfe1"], t))
  /\ UNCHANGED ncalls

\* renderMFE1 after the await (both the try and the catch mark the link),
\* then navigate returns.
renderMFE1_resume(t) ==
  /\ tasks[t].kind = "nav" /\ tasks[t].pc = "N_loadDone"
  /\ routes[tasks[t].path] = "renderMFE1"
  /\ Commit(Settle([St EXCEPT !.activeLink = "/mfe1",
                              !.lastSucceeded = tasks[t].path], t, "-",
              [NoEvent EXCEPT !.type = "navSettled", !.path = tasks[t].path,
                 !.call = tasks[t].call, !.requested = tasks[t].requested,
                 !.origin = tasks[t].origin, !.skip = tasks[t].skip,
                 !.handler = routes[tasks[t].path], !.cause = "handled",
                 !.invoked = tasks[t].invoked,
                 !.awaited = tasks[t].awaited]))
  /\ UNCHANGED ncalls

\* The handler of the mfe2 route after its await, then navigate: the
\* handler has no catch block, so a rejected loadMFE rejects the handler
\* and navigate goes on in its catch block.
renderMFE2_resume(t) ==
  /\ tasks[t].kind = "nav" /\ tasks[t].pc = "N_loadDone"
  /\ routes[tasks[t].path] = "renderMFE2"
  /\ Commit(IF tasks[t].awaited
            THEN Settle([St EXCEPT !.lastSucceeded = tasks[t].path], t, "-",
                   [NoEvent EXCEPT !.type = "navSettled",
                      !.path = tasks[t].path, !.call = tasks[t].call,
                      !.requested = tasks[t].requested,
                      !.origin = tasks[t].origin, !.skip = tasks[t].skip,
                      !.handler = routes[tasks[t].path], !.cause = "handled",
                      !.invoked = tasks[t].invoked,
                      !.awaited = tasks[t].awaited])
            ELSE navigate_catch(St, t))
  /\ UNCHANGED ncalls

\* navigate returns after a handler that has completed at once (the home
\* handler, a registered function that returns).
navigate_return(t) ==
  /\ tasks[t].kind = "nav" /\ tasks[t].pc = "N_handlerDone"
  /\ Commit(Settle([St EXCEPT !.lastSucceeded = tasks[t].path], t, "-",
              [NoEvent EXCEPT !.type = "navSettled", !.path = tasks[t].path,
                 !.call = tasks[t].call, !.requested = tasks[t].requested,
                 !.origin = tasks[t].origin, !.skip = tasks[t].skip,
                 !.handler = routes[tasks[t].path], !.cause = "handled",
                 !.invoked = tasks[t].invoked,
                 !.awaited = tasks[t].awaited]))
  /\ UNCHANGED ncalls

\* `await handler(path)` rejects: navigate goes on in its catch block.
navigate_failed(t) ==
  /\ tasks[t].kind = "nav" /\ tasks[t].pc = "N_handlerFailed"
  /\ Commit(navigate_catch(St, t))
  /\ UNCHANGED ncalls

----------------------------------------------------------------------------
\* Router.register, Router.init and the popstate listener

\* Values handed to register as handler: the functions of Stubs and a value
\* that is not a function.
HandlerArgs == Stubs \cup {"notcallable"}

\* A register without the typeof test.
register_call_unchecked(S, path, h, call) ==
  [S EXCEPT !.routes[path] = h,
            !.ev = [NoEvent EXCEPT !.type = "register", !.path = path,
                      !.handler = h, !.call = call, !.ok = TRUE,
                      !.cause = "stored"]]

\* register, lines 18-23.
register_call(S, path, h, call) ==
  IF h = "notcallable"
  THEN [S EXCEPT !.ev = [NoEvent EXCEPT !.type = "register", !.path = path,
                           !.handler = h, !.call = call, !.ok = FALSE,
                           !.cause = "threw"]]
  ELSE [S EXCEPT !.routes[path] = h,
                 !.ev = [NoEvent EXCEPT !.type = "register", !.path = path,
                           !.handler = h, !.call = call, !.ok = TRUE,
                           !.cause = "stored"]]

\* An init without the isInitialized test.
init_call_unguarded(S, initialPath, call) ==
  [navigate_call([S EXCEPT !.listeners = @ + 1], initialPath, TRUE, call,
                 "init")
     EXCEPT !.isInitialized = TRUE]

\* init, lines 75-93; initialPath is window.location.pathname.
init_call(S, initialPath, call) ==
  IF S.isInitialized
  THEN [S EXCEPT !.ev = [NoEvent EXCEPT !.type = "init", !.origin = "init",
                           !.call = call, !.cause = "already"]]
  ELSE [navigate_call([S EXCEPT !.listeners = @ + 1], initialPath, TRUE, call,
                      "init")
          EXCEPT !.isInitialized = TRUE]

\* A listener that navigates without skipPushState.
popstate_listener_pushing(S, path, call) ==
  navigate_call(S, path, FALSE, call, "popstate")

\* The popstate listener, lines 82-86; path is event.state?.path or the
\* location's pathname.
popstate_listener(S, path, call) ==
  navigate_call(S, path, TRUE, call, "popstate")

----------------------------------------------------------------------------
\* error-boundary.js: setupGlobalErrorHandler and showErrorNotification

\* A notification that has not been made.
FreeNote == [state |-> "free", timer |-> "none", title |-> Null, by |-> "-"]

\* Notification i is in the document.
InDocument(N, i) == N[i].state \in {"shown", "fading"}

\* document.querySelector('.error-notification'): the first notification
\* in the document, 0 when there is none.
existingNotification(N) ==
  IF \E i \in NoteIds : InDocument(N, i)
  THEN CHOOSE i \in NoteIds :
         InDocument(N, i) /\ \A j \in NoteIds : InDocument(N, j) => i <= j
  ELSE 0

\* The notification made next.
NewNote(N) ==
  CHOOSE i \in NoteIds :
    N[i].state = "free" /\ \A j \in NoteIds : N[j].state = "free" => i <= j

\* A showErrorNotification that leaves the notification on display.
showErrorNotification_stacking(N, title) ==
  [N EXCEPT ![NewNote(N)] = [state |-> "shown", timer |-> "t5000",
                             title |-> title, by |-> "-"]]

\* showErrorNotification, lines 249-285: the notification on display is
\* removed, the new one is appended to document.body and its timer of 5
\* seconds is set.
showErrorNotification(N, title) ==
  LET existing == existingNotification(N)
      N1 == IF existing # 0
            THEN [N EXCEPT ![existing] = [@ EXCEPT !.state = "removed",
                                                   !.by = "replaced"]]
            ELSE N
  IN [N1 EXCEPT ![NewNote(N)] = [state |-> "shown", timer |-> "t5000",
                                 title |-> title, by |-> "-"]]

shell == <<loadedMFEs, currentMFE, federationInitialized, dom, currentRoute,
           history, location, activeLink, routes, isInitialized, listeners,
           lastSucceeded, tasks, inst, handle, ncalls, ev>>

\* The listener of 'unhandledrejection', lines 217-228.
UnhandledRejection ==
  /\ \E i \in NoteIds : notes[i].state = "free"
  /\ notes' = showErrorNotification(notes, "An unexpected error occurred")
  /\ UNCHANGED <<shell, manifest, mfe1>>

\* The listener of 'error', lines 231-241, for an event with a filename (an
\* event without one shows nothing).
ScriptError ==
  /\ \E i \in NoteIds : notes[i].state = "free"
  /\ notes' = showErrorNotification(notes, "Script Error")
  /\ UNCHANGED <<shell, manifest, mfe1>>

\* The timer of 5 seconds fires, lines 279-284: a notification still in
\* the document starts to fade and its timer of 300 ms is set.
autoDismiss(i) ==
  /\ notes[i].timer = "t5000"
  /\ notes' = [notes EXCEPT ![i] =
                 IF InDocument(notes, i)
                 THEN [@ EXCEPT !.state = "fading", !.timer = "t300"]
                 ELSE [@ EXCEPT !.timer = "none"]]
  /\ UNCHANGED <<shell, manifest, mfe1>>

\* The timer of 300 ms fires, line 282: notification.remove().
fadeOutDone(i) ==
  /\ notes[i].timer = "t300"
  /\ notes' = [notes EXCEPT ![i] =
                 IF InDocument(notes, i)
                 THEN [@ EXCEPT !.state = "removed", !.by = "timer",
                                !.timer = "none"]
                 ELSE [@ EXCEPT !.timer = "none"]]
  /\ UNCHANGED <<shell, manifest, mfe1>>

\* The close button is clicked, line 270: notification.remove().
closeNotification(i) ==
  /\ InDocument(notes, i)
  /\ notes' = [notes EXCEPT ![i] = [@ EXCEPT !.state = "removed",
                                             !.by = "close"]]
  /\ UNCHANGED <<shell, manifest, mfe1>>

----------------------------------------------------------------------------
\* main.js, MFELoader._loadManifest (the loader that reads the manifest)

\* The mapping _loadManifest falls back on, lines 227-229.
DefaultManifest ==
  [n \in Names |-> IF n = "mfe1" THEN "http://localhost:4201/remoteEntry.json"
                   ELSE Null]

\* What /federation.manifest.json may hold: the mapping of a deployment,
\* and one with a second remote.
ManifestBodies == {"production", "twoRemotes"}

\* response.json() of a body.
ManifestFile(body) ==
  IF body = "production"
  THEN [n \in Names |->
          IF n = "mfe1" THEN "https://mfe1.example.com/remoteEntry.json"
          ELSE Null]
  ELSE [n \in Names |->
          IF n = "mfe1" THEN "http://localhost:4201/remoteEntry.json"
          ELSE "http://localhost:4202/remoteEntry.json"]

\* A call of _loadManifest that has not been made.
FreeFetch ==
  [pc |-> "free", fetched |-> "-", settled |-> "-",
   result |-> [n \in Names |-> Null]]

\* A catch block that logs the error and throws it again.
loadManifest_catch_rethrowing(c) ==
  [c EXCEPT !.pc = "done", !.settled = "rejected"]

\* _loadManifest, the catch block, lines 223-230: the default mapping is
\* returned.
loadManifest_catch(c) ==
  [c EXCEPT !.pc = "done", !.settled = "fulfilled", !.result = DefaultManifest]

\* _loadManifest is called: fetch('/federation.manifest.json'), line 218.
loadManifest_call ==
  /\ \E i \in ManifestIds : manifest[i].pc = "free"
  /\ LET i == CHOOSE i \in ManifestIds :
                /\ manifest[i].pc = "free"
                /\ \A j \in ManifestIds : manifest[j].pc = "free" => i <= j
     IN manifest' = [manifest EXCEPT ![i].pc = "fetch"]
  /\ UNCHANGED <<shell, notes, mfe1>>

\* The promise of fetch settles, lines 218-222: rejected, a response that
\* is not OK, or an OK response, whose json() is then awaited.
loadManifest_fetched(i, outcome) ==
  /\ manifest[i].pc = "fetch"
  /\ manifest' = [manifest EXCEPT ![i] =
        IF outcome = "ok" THEN [@ EXCEPT !.pc = "json", !.fetched = outcome]
        ELSE loadManifest_catch([@ EXCEPT !.fetched = outcome])]
  /\ UNCHANGED <<shell, notes, mfe1>>

\* The promise of response.json() settles, line 222: the mapping of the
\* file, or a rejection for a body that is not JSON.
loadManifest_parsed(i, body) ==
  /\ manifest[i].pc = "json"
  /\ manifest' = [manifest EXCEPT ![i] =
        IF body \in ManifestBodies
        THEN [@ EXCEPT !.pc = "done", !.settled = "fulfilled",
                       !.result = ManifestFile(body)]
        ELSE loadManifest_catch([@ EXCEPT !.fetched = "invalid"])]
  /\ UNCHANGED <<shell, notes, mfe1>>

----------------------------------------------------------------------------
\* mfe1/src/bootstrap.ts, as QUICKSTART.md gives it

\* The container arguments of mount: the element #test-container, its
\* selector, and a selector that matches nothing.
MountArgs == {"element", "#test-container", "#non-existent"}

\* A call of mount that has not been made.
FreeMount == [pc |-> "free", arg |-> Null]

\* The module is evaluated because the loader of the vanilla shell imports
\* it (loadRemoteModule(name, './bootstrap')) or because the application's
\* own entry point does; it is evaluated once.  Lines 119-125: unless
\* window.__MFE_LOADED__ is set the module calls bootstrapApplication.
importBootstrap(by) ==
  /\ mfe1.importedBy = Null
  /\ mfe1' = [mfe1 EXCEPT
                !.importedBy = by,
                !.autoBootstrapped = ~mfe1.MFE_LOADED,
                !.bootstraps = IF mfe1.MFE_LOADED THEN @ ELSE @ + 1]
  /\ UNCHANGED <<shell, notes, manifest>>

\* mount up to its await, lines 91-107: a container that is not found
\* throws; else app-root m is appended to the container and
\* bootstrapApplication is called.
mount_call(M, m, arg) ==
  IF arg = "#non-existent"
  THEN [M EXCEPT !.mounts[m] = [pc |-> "notFound", arg |-> arg]]
  ELSE [M EXCEPT !.mounts[m] = [pc |-> "bootstrapping", arg |-> arg],
                 !.appRoots = @ \cup {m},
                 !.bootstraps = @ + 1]

\* mount is called by whoever has imported the module.
CallMount(arg) ==
  /\ mfe1.importedBy # Null
  /\ \E m \in MountIds : mfe1.mounts[m].pc = "free"
  /\ LET m == CHOOSE m \in MountIds :
                /\ mfe1.mounts[m].pc = "free"
                /\ \A j \in MountIds : mfe1.mounts[j].pc = "free" => m <= j
     IN mfe1' = mount_call(mfe1, m, arg)
  /\ UNCHANGED <<shell, notes, manifest>>

\* The promise of bootstrapApplication settles, lines 107-117: mount
\* resolves to { unmount } or rejects.
bootstrapApplication_settled(m, outcome) ==
  /\ mfe1.mounts[m].pc = "bootstrapping"
  /\ mfe1' = [mfe1 EXCEPT !.mounts[m].pc =
                IF outcome = "ok" THEN "mounted" ELSE "rejected"]
  /\ UNCHANGED <<shell, notes, manifest>>

\* An unmount that destroys the application and leaves its root element.
unmount_destroyOnly(M, m) == [M EXCEPT !.mounts[m].pc = "unmounted"]

\* unmount of the object mount m resolved to, lines 110-115:
\* appRef.destroy(), then app-root m is removed if the container holds it.
unmount(M, m) ==
  [M EXCEPT !.mounts[m].pc = "unmounted", !.appRoots = @ \ {m}]

CallUnmount(m) ==
  /\ mfe1.mounts[m].pc = "mounted"
  /\ mfe1' = unmount(mfe1, m)
  /\ UNCHANGED <<shell, notes, manifest>>

----------------------------------------------------------------------------
\* Calls from outside

Idle == Busy(St) = {}

CallLoadMFE(name, sel) ==
  /\ ncalls < MaxCalls /\ Drained
  /\ Commit(loadMFE_call(St, name, sel, 0, ncalls + 1))
  /\ ncalls' = ncalls + 1

CallUnloadMFE(name) ==
  /\ ncalls < MaxCalls /\ Drained
  /\ Commit(unloadMFE_call(St, name, 0, ncalls + 1))
  /\ ncalls' = ncalls + 1

CallNavigate(path, skipPushState) ==
  /\ ncalls < MaxCalls /\ Drained
  /\ Commit(navigate_call(St, path, skipPushState, ncalls + 1, "call"))
  /\ ncalls' = ncalls + 1

CallRegister(path, h) ==
  /\ ncalls < MaxCalls /\ Drained
  /\ Commit(register_call(St, path, h, ncalls + 1))
  /\ ncalls' = ncalls + 1

\* The page is opened at address url and initApp calls router.init().
CallInit(url) ==
  /\ ncalls < MaxCalls /\ Drained
  /\ Commit(init_call([St EXCEPT !.location = url], url, ncalls + 1))
  /\ ncalls' = ncalls + 1

\* Back or forward: the browser makes the entry's address the location and
\* delivers a popstate event to the listener init has added.  The entries
\* pushState has made carry their path as state, the entry of the address
\* the page was opened at carries none; either way the listener's path is
\* the location's.
Popstate(path) ==
  /\ ncalls < MaxCalls /\ Drained
  /\ listeners > 0
  /\ Commit(popstate_listener([St EXCEPT !.location = path], path,
                              ncalls + 1))
  /\ ncalls' = ncalls + 1

\* The containerSelector the callbacks of the fallback view in container c
\* have closed over.
SelectorOf(c) == IF c = "sel" THEN "#sel" ELSE c

\* The 'Try Again' button of the fallback view in container c is clicked:
\* the callback of _displayError, lines 308-313, calls loadMFE with the
\* name and the containerSelector of the failed call and catches its
\* rejection.
TryAgain(c) ==
  /\ ncalls < MaxCalls /\ Drained
  /\ dom[c].attached /\ dom[c].fallback # Null
  /\ LET t == NewTask(St)
         S1 == loadMFE_call(St, dom[c].fallback, SelectorOf(c), 0, ncalls + 1)
     IN Commit(IF S1.tasks[t].kind = "load"
               THEN [S1 EXCEPT !.tasks[t].origin = "retry",
                               !.ev.origin = "retry"]
               ELSE S1)
  /\ ncalls' = ncalls + 1

\* The 'Go to Home' button of the fallback view in container c is clicked:
\* the callback of _displayError, lines 314-321, calls
\* window.router.navigate('/').
GoHome(c) ==
  /\ ncalls < MaxCalls /\ Drained
  /\ dom[c].attached /\ dom[c].fallback # Null
  /\ Commit(navigate_call(St, "/", FALSE, ncalls + 1, "goHome"))
  /\ ncalls' = ncalls + 1

\* The caller of a loadMFE that has just resolved keeps the object it
\* resolved with, { unmount: () => this.unloadMFE(name), metadata }
\* (loadMFE, lines 67-70); id is the instance of metadata.
KeepHandle ==
  /\ ev.type = "loadResolved" /\ ev.top
  /\ handle # [name |-> ev.name, id |-> ev.id]
  /\ handle' = [name |-> ev.name, id |-> ev.id]
  /\ UNCHANGED <<loadedMFEs, currentMFE, federationInitialized, dom,
                 currentRoute, history, location, activeLink, routes,
                 isInitialized, listeners, lastSucceeded, tasks, inst, notes,
                 manifest, mfe1, ncalls, ev>>

\* unmount() of the kept object is called: line 68, this.unloadMFE(name).
HandleUnmount ==
  /\ ncalls < MaxCalls /\ Drained
  /\ handle # NoHandle
  /\ LET t == NewTask(St)
         S1 == unloadMFE_call(St, handle.name, 0, ncalls + 1)
     IN Commit([S1 EXCEPT !.ev.origin = "handle",
                          !.tasks[t].origin =
                             IF S1.tasks[t].kind = "unload" THEN "handle"
                             ELSE @])
  /\ ncalls' = ncalls + 1

\* navigation.js, navLinks: the paths of the links of the navigation bar.
NavLinks == {"/", "/mfe1"}

\* updateActiveLink, navigation.js 64-84: the link with data-path = path is
\* marked, for '/home' the home link, and for any other path no link.
updateActiveLink(S, path) ==
  [S EXCEPT !.activeLink = IF path \in NavLinks THEN path
                           ELSE IF path = "/home" THEN "/" ELSE Null]

\* The click handler of a navigation link, navigation.js 41-45:
\* router.navigate(path), not awaited, then updateActiveLink(path).
Click(path) ==
  /\ ncalls < MaxCalls /\ Drained
  /\ Commit(LET S1 == navigate_call(St, path, FALSE, ncalls + 1, "click")
            IN [updateActiveLink(S1, path) EXCEPT !.ev = S1.ev])
  /\ ncalls' = ncalls + 1

\* A call that may start while earlier calls are pending.
OverlapLoadMFE(name, sel) == ncalls < MaxOverlap /\ CallLoadMFE(name, sel)
OverlapUnloadMFE(name) == ncalls < MaxOverlap /\ CallUnloadMFE(name)
OverlapNavigate(path, skipPushState) ==
  ncalls < MaxOverlap /\ CallNavigate(path, skipPushState)
OverlapClick(path) == ncalls < MaxOverlap /\ Click(path)

\* A call made only when every earlier call has settled.
SeqLoadMFE(name, sel) == Idle /\ CallLoadMFE(name, sel)
SeqUnloadMFE(name) == Idle /\ CallUnloadMFE(name)
SeqNavigate(path, skipPushState) == Idle /\ CallNavigate(path, skipPushState)
SeqRegister(path, h) == Idle /\ CallRegister(path, h)
SeqInit(url) == Idle /\ CallInit(url)
SeqPopstate(path) == Idle /\ Popstate(path)
SeqClick(path) == Idle /\ Click(path)
SeqTryAgain(c) == Idle /\ TryAgain(c)
SeqGoHome(c) == Idle /\ GoHome(c)
SeqKeepHandle == Idle /\ KeepHandle
SeqHandleUnmount == Idle /\ HandleUnmount

Init ==
  /\ loadedMFEs = EmptyMap
  /\ currentMFE = Null
  /\ federationInitialized = FALSE
  /\ dom = [c \in Containers |->
              [attached |-> FALSE, apps |-> {}, fallback |-> Null]]
  /\ currentRoute = Null
  /\ history = <<>>
  /\ location = Null
  /\ activeLink = Null
  /\ routes = InitialRoutes
  /\ isInitialized = FALSE
  /\ listeners = 0
  /\ lastSucceeded = Null
  /\ tasks = [t \in TaskIds |-> FreeTask]
  /\ inst = [i \in InstIds |-> FreeInst]
  /\ notes = [i \in NoteIds |-> FreeNote]
  /\ handle = NoHandle
  /\ manifest = [i \in ManifestIds |-> FreeFetch]
  /\ mfe1 = [importedBy |-> Null, MFE_LOADED |-> FALSE, autoBootstrapped |-> FALSE,
             bootstraps |-> 0, mounts |-> [m \in MountIds |-> FreeMount],
             appRoots |-> {}]
  /\ ncalls = 0
  /\ ev = NoEvent

\* What the environment answers and the continuations of the pending calls.
Progress ==
  \E t \in TaskIds :
    \/ \E o \in {"ok", "threw"} : unloadMFE_resume(t, o)
    \/ loadMFE_unloaded(t)
    \/ \E o \in {"ok", "fail"} : initFederation_settled(t, o)
    \/ \E o \in {"module", "nomount", "reject"} : loadRemoteModule_settled(t, o)
    \/ \E o \in {"unmount", "destroy", "empty", "reject"} : mount_settled(t, o)
    \/ loadMFE_store(t)

NavProgress ==
  \E t \in TaskIds : renderMFE1_resume(t) \/ navigate_return(t)

\* The loader under calls that may overlap.
Next ==
  \/ \E n \in Names, s \in Selectors : OverlapLoadMFE(n, s)
  \/ \E n \in Names : OverlapUnloadMFE(n)
  \/ Progress

Spec == Init /\ [][Next]_vars

\* Loader and router when each call settles before the next one starts.
SeqNext ==
  \/ \E n \in Names, s \in Selectors : SeqLoadMFE(n, s)
  \/ \E n \in Names : SeqUnloadMFE(n)
  \/ \E p \in Paths, k \in BOOLEAN : SeqNavigate(p, k)
  \/ Progress
  \/ NavProgress

SeqSpec == Init /\ [][SeqNext]_vars

\* The shell under navigations that may overlap.
NavNext ==
  \/ \E p \in Paths, k \in BOOLEAN : OverlapNavigate(p, k)
  \/ Progress
  \/ NavProgress

NavSpec == Init /\ [][NavNext]_vars

RouterProgress == \E t \in TaskIds : navigate_failed(t)

\* The router with handlers registered after initApp, init and popstate
\* events; each event arrives when the calls before it have settled.
RouterNext ==
  \/ \E p \in Paths, h \in HandlerArgs : SeqRegister(p, h)
  \/ \E p \in Paths : SeqInit(p)
  \/ \E p \in Paths : SeqPopstate(p)
  \/ \E p \in Paths, k \in BOOLEAN : SeqNavigate(p, k)
  \/ Progress
  \/ NavProgress
  \/ RouterProgress

RouterSpec == Init /\ [][RouterNext]_vars

\* The shell under clicks on the navigation links; a link may be clicked
\* while the navigation an earlier click has started is pending.
ClickNext ==
  \/ \E p \in NavLinks : OverlapClick(p)
  \/ Progress
  \/ NavProgress

ClickSpec == Init /\ [][ClickNext]_vars

\* The shell as initApp sets it up, under the three ways a user navigates:
\* opening the page at an address, clicking a link, going back or forward.
UrlNext ==
  \/ \E url \in Paths : SeqInit(url)
  \/ \E p \in NavLinks : SeqClick(p)
  \/ \E p \in Paths : SeqPopstate(p)
  \/ Progress
  \/ NavProgress

UrlSpec == Init /\ [][UrlNext]_vars

\* The shell with a second MFE route, registered as the README's "Adding
\* New Microfrontends" says, under navigations between the routes.
SwitchNext ==
  \/ SeqRegister("/mfe2", "renderMFE2")
  \/ \E p \in NavLinks \cup {"/mfe2"} : SeqNavigate(p, FALSE)
  \/ Progress
  \/ NavProgress
  \/ \E t \in TaskIds : renderMFE2_resume(t)

SwitchSpec == Init /\ [][SwitchNext]_vars

\* The global error handler: rejections nobody handles, script errors,
\* the timers and the close button of the notifications.
NotifyNext ==
  \/ UnhandledRejection
  \/ ScriptError
  \/ \E i \in NoteIds : autoDismiss(i)
  \/ \E i \in NoteIds : fadeOutDone(i)
  \/ \E i \in NoteIds : closeNotification(i)

NotifySpec == Init /\ [][NotifyNext]_vars

\* A timer that has been set fires.
NotifyFairSpec ==
  /\ NotifySpec
  /\ \A i \in NoteIds : WF_vars(autoDismiss(i)) /\ WF_vars(fadeOutDone(i))

\* The loader called with every kind of containerSelector, and the two
\* buttons of the fallback view; each call or click comes when the calls
\* before it have settled.
RetryNext ==
  \/ \E n \in Names, s \in Selectors \cup BadSelectors : SeqLoadMFE(n, s)
  \/ \E c \in Containers : SeqTryAgain(c)
  \/ \E c \in Containers : SeqGoHome(c)
  \/ Progress
  \/ \E t \in TaskIds : navigate_return(t)

RetrySpec == Init /\ [][RetryNext]_vars

\* The loader with a caller that keeps the result of a loadMFE call and
\* calls its unmount() later; each call comes when the calls before it have
\* settled.
HandleNext ==
  \/ \E n \in Names : SeqLoadMFE(n, "el")
  \/ \E n \in Names : SeqUnloadMFE(n)
  \/ SeqKeepHandle
  \/ SeqHandleUnmount
  \/ Progress

HandleSpec == Init /\ [][HandleNext]_vars

\* The manifest read by calls of _loadManifest that may overlap, under
\* every answer of the network.
ManifestNext ==
  \/ loadManifest_call
  \/ \E i \in ManifestIds, o \in {"rejected", "notOk", "ok"} :
       loadManifest_fetched(i, o)
  \/ \E i \in ManifestIds, b \in ManifestBodies \cup {"invalid"} :
       loadManifest_parsed(i, b)

ManifestSpec == Init /\ [][ManifestNext]_vars

\* The bootstrap module of MFE1: imported, then mounted and unmounted by
\* its host.
BootstrapNext ==
  \/ \E by \in {"shell", "direct"} : importBootstrap(by)
  \/ \E a \in MountArgs : CallMount(a)
  \/ \E m \in MountIds, o \in {"ok", "fail"} : bootstrapApplication_settled(m, o)
  \/ \E m \in MountIds : CallUnmount(m)

BootstrapSpec == Init /\ [][BootstrapNext]_vars

\* One MFE under loads, unloads and navigations that come in quick
\* succession: a call may start while earlier ones are pending, the
\* un-awaited unloadMFE of renderHome included.
ReloadNext ==
  \/ CallLoadMFE("mfe1", "el")
  \/ CallUnloadMFE("mfe1")
  \/ \E p \in NavLinks : CallNavigate(p, FALSE)
  \/ Progress
  \/ NavProgress

ReloadSpec == Init /\ [][ReloadNext]_vars

----------------------------------------------------------------------------
\* Properties

TypeOK ==
  /\ currentMFE \in Names \cup {Null}
  /\ \A i \in NoteIds :
       /\ notes[i].state \in {"free", "shown", "fading", "removed"}
       /\ notes[i].timer \in {"none", "t5000", "t300"}
  /\ federationInitialized \in BOOLEAN
  /\ ncalls \in 0..MaxCalls
  /\ \A n \in Names : loadedMFEs[n].container \in Containers \cup {Null}
  /\ \A p \in AllPaths :
       routes[p] \in Stubs \cup {"renderHome", "renderMFE1", "renderMFE2", "none"}
  /\ isInitialized \in BOOLEAN
  /\ listeners \in 0..MaxCalls
  /\ currentRoute \in AllPaths \cup {Null}
  /\ location \in AllPaths \cup {Null}
  /\ lastSucceeded \in AllPaths \cup {Null}

\* The mount of instance i has resolved.
Mounted(i) == inst[i].result \in {"unmount", "destroy", "empty"}

\* A mounted instance whose teardown has not been invoked.
Live(i) == Mounted(i) /\ inst[i].tdCalls = 0

LiveOf(n) == {i \in InstIds : Live(i) /\ inst[i].name = n}

\* The entry of its own name that a pending or just settled loadMFE found
\* when it was called (id 0: none).
Previous(r) == r.preLoaded[r.name].id

\* C1: when every loadMFE / unloadMFE call (made directly or by a route
\* handler) settles before the next call starts, each name has at most one
\* mounted instance whose teardown has not been invoked, and that instance
\* is the one stored in loadedMFEs (or the one its loadMFE is about to store
\* in the continuation that follows the mount).
C1_OneLivePerName ==
  \A n \in Names : \A i \in LiveOf(n) :
    /\ LiveOf(n) = {i}
    /\ \/ loadedMFEs[n].id = i
       \/ \E t \in TaskIds : /\ tasks[t].kind = "load"
                              /\ tasks[t].pc = "L_store"
                              /\ tasks[t].id = i
    /\ Idle => loadedMFEs[n].id = i

\* C1 case: a name was loaded again, every call has settled, and the only
\* live instance of the name is the stored one.
C1_Witness ==
  /\ Idle
  /\ ev.type = "loadResolved" /\ Previous(ev) # 0
  /\ LiveOf(ev.name) = {loadedMFEs[ev.name].id}

\* C2: loadMFE(N, c) called again after the first call has resolved: when
\* the second call invokes mount, and when it resolves, the teardown of the
\* first instance has been invoked exactly once and has completed; no
\* teardown is ever invoked twice; the entry of N holds the new instance.
C2_TornDownBeforeRemount ==
  /\ \A i \in InstIds : inst[i].tdCalls <= 1
  /\ \A t \in TaskIds :
       (/\ tasks[t].kind = "load"
        /\ tasks[t].pc \in {"L_awaitMount", "L_store"}
        /\ Previous(tasks[t]) # 0)
       => /\ tasks[t].id # Previous(tasks[t])
          /\ inst[Previous(tasks[t])].tdCalls = 1
          /\ inst[Previous(tasks[t])].tdDone
  /\ ev.type = "loadResolved" =>
       /\ loadedMFEs[ev.name].id = ev.id
       /\ Previous(ev) # 0 =>
            /\ ev.id # Previous(ev)
            /\ inst[Previous(ev)].tdCalls = 1
            /\ inst[Previous(ev)].tdDone

\* C2 case: the second loadMFE of a name has resolved and the instance of
\* the first has been torn down.
C2_Witness ==
  /\ ev.type = "loadResolved" /\ Previous(ev) # 0
  /\ inst[Previous(ev)].tdCalls = 1
  /\ loadedMFEs[ev.name].id = ev.id

\* Instance i is mounted, its teardown has not been invoked, no entry of
\* the map holds it and no pending call does.
Untracked(i) ==
  /\ Live(i)
  /\ \A n \in Names : loadedMFEs[n].id # i
  /\ \A t \in TaskIds : tasks[t].id # i

C4_Serialized ==
  \A t \in TaskIds, u \in TaskIds :
    (tasks[t].kind = "load" /\ tasks[u].kind \in {"load", "unload"})
    => tasks[u].call <= tasks[t].call

\* C4 amended: navigate sets currentRoute and runs the route's handler in
\* its own turn, whatever is pending: right after navigate('/mfe1') the
\* loadMFE of that navigation has been called and is pending, and right
\* after a navigation to a home route the handler has finished and the
\* unloadMFE of the loaded current MFE has been called.
C4_HandlerStartsAtOnce ==
  ev.type = "navigate" =>
    /\ currentRoute = ev.path
    /\ ev.cause = "renderMFE1" =>
         \E t \in TaskIds :
           /\ tasks[t].kind = "load" /\ tasks[t].call = ev.call
           /\ tasks[t].pc \in {"L_awaitUnload", "L_awaitInit", "L_awaitImport"}
    /\ ev.cause = "renderHome" =>
         /\ \E t \in TaskIds :
              /\ tasks[t].kind = "nav" /\ tasks[t].call = ev.call
              /\ tasks[t].pc = "N_handlerDone"
         /\ (ev.preCurrent # Null /\ ev.preLoaded[ev.preCurrent] # NoEntry)
            => \E t \in TaskIds :
                 /\ tasks[t].kind = "unload" /\ tasks[t].call = ev.call
                 /\ tasks[t].name = ev.preCurrent

\* C4 case: a navigation has just started its own loadMFE while the
\* loadMFE of an earlier navigation is still pending.
C4_Witness ==
  /\ ev.type = "navigate"
  /\ \E t \in TaskIds, u \in TaskIds :
       /\ tasks[t].kind = "load" /\ tasks[t].call < ev.call
       /\ tasks[u].kind = "load" /\ tasks[u].call = ev.call

\* C5 as stated: when loadMFE rejects, loadedMFEs and currentMFE are what
\* they were when the call started.
C5_StateUnchanged ==
  ev.type = "loadRejected" =>
    loadedMFEs = ev.preLoaded /\ currentMFE = ev.preCurrent

\* C5 amended: when loadMFE(N, c) rejects, the entries of the other names
\* are what they were when the call started.  If N was not loaded then, or
\* the container argument is invalid, loadedMFEs and currentMFE are
\* unchanged.  If N was loaded and the container is valid, N has been
\* unloaded before the failing step: N has no entry, and currentMFE is
\* unchanged if it was another name, and null or still N if it was N.
C5_OnlyOwnEntryRemoved ==
  ev.type = "loadRejected" =>
    /\ \A n \in Names \ {ev.name} : loadedMFEs[n] = ev.preLoaded[n]
    /\ (Previous(ev) = 0 \/ ev.cause = "container") =>
         loadedMFEs = ev.preLoaded /\ currentMFE = ev.preCurrent
    /\ (Previous(ev) # 0 /\ ev.cause # "container") =>
         /\ loadedMFEs[ev.name] = NoEntry
         /\ inst[Previous(ev)].tdCalls = 1
         /\ currentMFE \in {ev.preCurrent, Null}
         /\ ev.preCurrent # ev.name => currentMFE = ev.preCurrent

\* C5 case: a loadMFE of an already loaded name has rejected after its
\* import failed, and the name has lost its entry.
C5_Witness ==
  /\ ev.type = "loadRejected" /\ ev.cause = "import"
  /\ Previous(ev) # 0
  /\ loadedMFEs[ev.name] = NoEntry

C7_ContainerEmptyAfterUnload ==
  (ev.type = "unloadSettled" /\ ev.cause # "notLoaded" /\ ev.top) =>
    /\ dom[ev.container].apps = {}
    /\ dom[ev.container].fallback = Null
    /\ loadedMFEs[ev.name] = NoEntry

\* C8: when unloadMFE of a loaded name settles, the name has no entry,
\* also when the teardown has thrown; in that case the call resolves to
\* false.
C8_EntryAlwaysRemoved ==
  (ev.type = "unloadSettled" /\ ev.cause # "notLoaded") =>
    /\ loadedMFEs[ev.name] = NoEntry
    /\ ev.cause = "threw" => ev.ok = FALSE

\* C8 case: the stored teardown has thrown and unloadMFE has resolved to
\* false.
C8_Witness ==
  /\ ev.type = "unloadSettled" /\ ev.cause = "threw"
  /\ inst[ev.id].tdCalls = 1
  /\ ~ev.ok

\* C9: a step in which unloadMFE is called for a name that is not loaded
\* resolves to false, invokes no teardown and leaves loadedMFEs,
\* currentMFE, the containers and the pending calls as they were.
C9_NotLoadedIsNoOp ==
  [][(ev'.type = "unloadSettled" /\ ev'.cause = "notLoaded") =>
       /\ ev'.ok = FALSE
       /\ UNCHANGED <<loadedMFEs, currentMFE, dom, tasks>>
       /\ \A i \in InstIds : inst'[i].tdCalls <= inst[i].tdCalls]_vars

\* C9 case: unloadMFE was called for a name that is not loaded while
\* another name is loaded and current.
C9_Witness ==
  /\ ev.type = "unloadSettled" /\ ev.cause = "notLoaded"
  /\ currentMFE # Null /\ currentMFE # ev.name
  /\ loadedMFEs[currentMFE] # NoEntry

\* C10: every stored entry has a callable unmount; when unloadMFE of an
\* entry that holds the substituted teardown settles, it has resolved to
\* true, the container is empty and the entry is gone.
C10_EveryEntryHasUnmount ==
  /\ \A n \in Names : loadedMFEs[n] # NoEntry => HasUnmount(loadedMFEs[n].instance)
  /\ (ev.type = "unloadSettled" /\ ev.instance = "default") =>
       /\ ev.ok /\ ev.cause = "unloaded"
       /\ dom[ev.container].apps = {} /\ dom[ev.container].fallback = Null
       /\ loadedMFEs[ev.name] = NoEntry

\* C10 case: an instance whose mount returned {} has been unloaded with
\* the substituted teardown.
C10_Witness ==
  /\ ev.type = "unloadSettled" /\ ev.instance = "default"
  /\ inst[ev.id].result = "empty" /\ inst[ev.id].tdCalls = 1
  /\ ev.ok

\* The last entry pushed onto the history (null when there is none).
LastPushed == IF history = <<>> THEN Null ELSE history[Len(history)]

\* C11 as stated: when navigate(P) for a registered P has settled,
\* currentRoute is P and the handler of P has been invoked once.
C11_CurrentIsRequested ==
  (ev.type = "navSettled" /\ routes[ev.requested] # "none") =>
    /\ currentRoute = ev.requested
    /\ ev.handler = routes[ev.requested] /\ ev.invoked = 1

\* C11 amended: navigate(P) for a registered P invokes the handler of P
\* exactly once.  When it has settled, currentRoute is P if the handler
\* completed without throwing or P is '/' or '/home'; if the handler of
\* another path threw or rejected, currentRoute is '/'.
C11_CurrentUnlessRecovered ==
  (ev.type = "navSettled" /\ routes[ev.requested] # "none") =>
    /\ ev.path = ev.requested
    /\ ev.handler = routes[ev.requested] /\ ev.invoked = 1
    /\ ev.cause = "handled" =>
         currentRoute = ev.requested /\ lastSucceeded = ev.requested
    /\ ev.cause = "handlerFailed" =>
         currentRoute = IF ev.requested \in {"/", "/home"} THEN ev.requested
                        ELSE "/"

\* C11 case: a path registered after initApp with a handler that returns
\* has been navigated to and is the current route.
C11_Witness ==
  /\ ev.type = "navSettled" /\ ev.cause = "handled"
  /\ ev.requested \notin Registered /\ routes[ev.requested] = "ok"
  /\ currentRoute = ev.requested /\ ev.invoked = 1

C13_EveryFailureRecovers ==
  (/\ ev.type = "navSettled" /\ ev.cause = "handlerFailed"
   /\ ev.requested # "/" /\ routes[ev.requested] # "none")
  => currentRoute = "/" /\ ev.recovery = routes["/"]

\* C13 amended: when the handler of a registered path other than '/' and
\* '/home' has thrown or rejected, navigate has called navigate('/'): the
\* handler of '/' has been invoked, '/' has been pushed and is the current
\* route, and stays it while the recovery is pending.  When the handler of
\* '/home' fails there is no recovery and '/home' stays current.
C13_FailureRecoversUnlessHome ==
  /\ (/\ ev.type = "navSettled" /\ ev.cause = "handlerFailed"
      /\ ev.requested # "/" /\ routes[ev.requested] # "none")
     => IF ev.requested = "/home"
        THEN currentRoute = "/home" /\ ev.recovery = "-"
        ELSE /\ currentRoute = "/" /\ ev.recovery = routes["/"]
             /\ LastPushed = "/"
  /\ \A t \in TaskIds : tasks[t].origin = "recovery" =>
       /\ currentRoute = "/" /\ tasks[t].path = "/"
       /\ tasks[t].invoked = 1

\* C13 case: the handler of a route other than the home routes has
\* failed and the recovery has run the handler of '/'.
C13_Witness ==
  /\ ev.type = "navSettled" /\ ev.cause = "handlerFailed"
  /\ ev.requested \notin {"/", "/home"} /\ routes[ev.requested] # "none"
  /\ ev.recovery = routes["/"] /\ currentRoute = "/"

\* C14 as stated: when the handler of '/' has thrown or rejected, the
\* promise of navigate is rejected.
C14_HomeFailureRejects ==
  (ev.type = "navSettled" /\ ev.cause = "handlerFailed" /\ ev.path = "/")
  => ~ev.ok

\* C15 as stated: no step of a navigation started by the popstate listener
\* or by init pushes onto the history.
C15_ReplayNeverPushes ==
  ev.origin \in {"popstate", "init"} => ev.pushed = 0

\* C15 amended: a navigation started by the popstate listener or by init
\* does not push its own path; the only push it can cause is the '/' of
\* the recovery navigate('/'), made when the handler of a path other than
\* '/' and '/home' has thrown or rejected.
C15_ReplayPushesOnlyRecovery ==
  ev.origin \in {"popstate", "init"} =>
    /\ ev.skip \/ ev.type = "init"
    /\ IF /\ ev.type = "navSettled" /\ ev.cause = "handlerFailed"
          /\ ev.path \notin {"/", "/home"}
       THEN ev.pushed = 1 /\ LastPushed = "/"
       ELSE ev.pushed = 0

\* C15 case: a popstate event has led to a route whose handler failed, and
\* the recovery has pushed '/'.
C15_Witness ==
  /\ ev.origin = "popstate" /\ ev.type = "navSettled"
  /\ ev.cause = "handlerFailed" /\ ev.pushed = 1 /\ LastPushed = "/"

\* C16: init adds one popstate listener and starts one navigation the
\* first time it is called; called on an initialized router it returns
\* without navigating, without adding a listener and without changing
\* anything else, so there is never more than one listener.
C16_InitIsIdempotent ==
  /\ [](listeners <= 1 /\ (isInitialized <=> listeners = 1))
  /\ [][(ncalls' # ncalls /\ ev'.origin = "init") =>
          IF isInitialized
          THEN /\ ev'.type = "init"
               /\ UNCHANGED <<loadedMFEs, currentMFE, federationInitialized,
                              dom, currentRoute, history, activeLink, routes,
                              isInitialized, listeners, lastSucceeded, tasks>>
          ELSE /\ isInitialized' /\ listeners' = 1
               /\ ev'.type \in {"navigate", "navSettled"}
               /\ ev'.skip /\ ev'.call = ncalls']_vars
  /\ [][isInitialized => isInitialized']_vars

\* C16 case: init has been called on an initialized router.
C16_Witness ==
  /\ ev.type = "init" /\ ev.cause = "already"
  /\ isInitialized /\ listeners = 1

\* C17: a register call with a value that is not a function throws and
\* leaves the route table as it was; with a function it stores it under the
\* path, replacing what the path mapped to, and changes no other path.
C17_RegisterStoresCallable ==
  [][(ncalls' # ncalls /\ ev'.type = "register") =>
       IF ev'.handler = "notcallable"
       THEN ~ev'.ok /\ routes' = routes
       ELSE ev'.ok /\ routes' = [routes EXCEPT ![ev'.path] = ev'.handler]]_vars

\* C17 case: a register with a non-function has thrown after an earlier
\* register has replaced a handler of initApp.
C17_Witness ==
  /\ ev.type = "register" /\ ~ev.ok
  /\ \E p \in Registered : routes[p] \in Stubs

\* C18 as stated: currentRoute is null or the path of the last navigation
\* whose handler has completed without throwing.
C18_CurrentIsLastSucceeded ==
  currentRoute \in {Null, lastSucceeded}

\* C18 amended: navigate stores the path before it invokes the handler:
\* right after the call currentRoute is the (substituted) path although the
\* handler is still pending, and when the handler of '/' or '/home' has
\* failed that path stays the current route.
C18_CurrentIsLastStarted ==
  /\ ev.type = "navigate" =>
       /\ currentRoute = ev.path
       /\ \E t \in TaskIds : /\ tasks[t].kind = "nav"
                              /\ tasks[t].call = ev.call
                              /\ tasks[t].path = ev.path
  /\ (/\ ev.type = "navSettled" /\ ev.cause = "handlerFailed"
      /\ ev.path \in {"/", "/home"} /\ ev.origin # "recovery")
     => currentRoute = ev.path

\* C18 case: a navigation is pending and its path is the current route
\* although no navigation to it has succeeded.
C18_Witness ==
  /\ ev.type = "navigate" /\ currentRoute = ev.path
  /\ lastSucceeded # currentRoute
  /\ \E t \in TaskIds : tasks[t].kind = "nav" /\ tasks[t].pc = "N_awaitLoad"

\* C19 as stated: the container of every entry is attached to the
\* document, and when unloadMFE of a loaded name has settled its container
\* has been detached.
C19_ContainerAttachedWhileLoaded ==
  /\ \A n \in Names :
       loadedMFEs[n] # NoEntry => dom[loadedMFEs[n].container].attached
  /\ (ev.type = "unloadSettled" /\ ev.cause # "notLoaded") =>
       ~dom[ev.container].attached

\* C20: when the loadMFE called by renderMFE1 rejects, renderMFE1 catches
\* the error: navigate resolves after a handler that has completed, no
\* recovery navigation is started, currentRoute stays '/mfe1', the link of
\* '/mfe1' is marked and #mfe-container shows the fallback view.
C20_LoadFailureHandledInPlace ==
  /\ (ev.type = "loadRejected" /\ ~ev.top) =>
       \E t \in TaskIds : /\ tasks[t].kind = "nav" /\ tasks[t].call = ev.call
                          /\ tasks[t].pc = "N_loadDone" /\ ~tasks[t].awaited
  /\ (ev.type = "navSettled" /\ ev.handler = "renderMFE1" /\ ~ev.awaited) =>
       /\ ev.ok /\ ev.cause = "handled" /\ ev.recovery = "-"
       /\ lastSucceeded = "/mfe1"
       /\ currentRoute = "/mfe1" /\ activeLink = "/mfe1"
       /\ \A t \in TaskIds : tasks[t].origin # "recovery"
       /\ dom["sel"].attached /\ dom["sel"].fallback = "mfe1"
       /\ dom["sel"].apps = {}
       /\ loadedMFEs["mfe1"] = NoEntry

\* C20 case: navigate('/mfe1') has settled after its loadMFE was rejected.
C20_Witness ==
  /\ ev.type = "navSettled" /\ ev.handler = "renderMFE1" /\ ~ev.awaited
  /\ currentRoute = "/mfe1" /\ dom["sel"].fallback = "mfe1"

\* C24 as stated: whenever the last navigation went to '/' or '/home' and
\* no navigation, load or unload is pending, no MFE is loaded: the map is
\* empty and currentMFE is null.
C24_HomeMeansNothingLoaded ==
  (Idle /\ currentRoute \in {"/", "/home"}) =>
    loadedMFEs = EmptyMap /\ currentMFE = Null

\* C30 as stated: when unloadMFE of an instance whose mount returned an
\* object with destroy() and no unmount() has settled, the teardown that
\* was invoked is that destroy().
C30_DestroyIsInvoked ==
  (/\ ev.type = "unloadSettled" /\ ev.cause # "notLoaded"
   /\ inst[ev.id].result = "destroy")
  => HasDestroy(ev.instance)

\* C29: a navigate('/') called when nothing is pending, in whatever state
\* earlier load, handler and teardown failures have left the shell, makes
\* '/' the current route and runs the handler of '/' to its end in the same
\* turn; unless that handler itself fails, navigate then settles with '/'
\* the current route and the last route that succeeded, and after
\* renderHome the home link is marked and #mfe-container shows no fallback.
C29_HomeAlwaysReachable ==
  /\ (/\ ev.type = "navigate" /\ ev.requested = "/" /\ ev.origin = "call"
      /\ ev.handler \in {"renderHome", "ok"})
     => /\ currentRoute = "/"
        /\ \E t \in TaskIds :
             /\ tasks[t].kind = "nav" /\ tasks[t].call = ev.call
             /\ tasks[t].pc = "N_handlerDone" /\ tasks[t].invoked = 1
        /\ \A t \in TaskIds : tasks[t].kind = "nav" => tasks[t].call = ev.call
  /\ (/\ ev.type = "navSettled" /\ ev.requested = "/" /\ ev.origin = "call"
      /\ ev.handler \in {"renderHome", "ok"})
     => /\ ev.ok /\ ev.cause = "handled" /\ ev.invoked = 1
        /\ currentRoute = "/" /\ lastSucceeded = "/"
        /\ ev.handler = "renderHome" =>
             activeLink = "/" /\ dom["sel"].fallback = Null

\* C29 case: navigate('/') has settled with '/' current in a state where a
\* failed teardown has left currentMFE naming an MFE without an entry.
C29_Witness ==
  /\ ev.type = "navSettled" /\ ev.requested = "/" /\ ev.cause = "handled"
  /\ currentMFE # Null /\ loadedMFEs[currentMFE] = NoEntry
  /\ currentRoute = "/"

\* C21 as stated: _displayError never throws; when its try block fails it
\* has written the minimal message and returned, so that loadMFE rejects
\* with its wrapped error.
C21_DisplayErrorNeverThrows ==
  ev.type = "loadRejected" =>
    /\ ev.displayed # "threw"
    /\ displayError_tryFails(ev.sel) =>
         ev.displayed = "minimal" /\ ev.error = "wrapped"

\* C22 as stated: every rejection of loadMFE is the wrapped error
\* 'MFE load failed: N - cause', whatever made the load fail.
C22_RejectionIsWrapped ==
  ev.type = "loadRejected" => ev.error = "wrapped"

\* C27 as stated: when the loadMFE called by 'Try Again' has resolved, the
\* name is loaded with the new instance and the container no longer holds
\* the fallback view.
C27_RetryReplacesFallback ==
  (ev.type = "loadResolved" /\ ev.origin = "retry") =>
    /\ loadedMFEs[ev.name].id = ev.id
    /\ ev.id \in dom[ev.container].apps
    /\ dom[ev.container].fallback = Null

\* C26 as stated: whenever no navigation or load is pending, the link
\* marked active is the link of the current route, the home link for
\* '/home'.
C26_ActiveLinkIsCurrentRoute ==
  (Idle /\ currentRoute # Null) =>
    activeLink = IF currentRoute = "/home" THEN "/" ELSE currentRoute

\* C25 as stated: when a navigation started by a link click, by back or
\* forward, or by opening the page at an address has settled, the
\* location's path is the current route.
C25_LocationIsCurrentRoute ==
  (ev.type = "navSettled" /\ ev.origin \in {"click", "popstate", "init"})
  => location = currentRoute

\* C23 as stated: when the mount function of an MFE is invoked for a
\* navigation, no other MFE has an entry and every mounted instance of
\* another MFE has been torn down to the end.
C23_PreviousUnmountedBeforeMount ==
  ev.type = "mount" =>
    /\ \A n \in Names \ {ev.name} : loadedMFEs[n] = NoEntry
    /\ \A i \in InstIds :
         (Mounted(i) /\ inst[i].name # ev.name) =>
           inst[i].tdCalls = 1 /\ inst[i].tdDone

\* C28: at most one error notification is in the document at any time, and
\* every notification in the document is removed in the end: by its own
\* timers if the close button is not clicked and no newer notification
\* takes its place before.
C28_NotificationIsTransient ==
  /\ [](Cardinality({i \in NoteIds : InDocument(notes, i)}) <= 1)
  /\ [](\A i \in NoteIds : notes[i].state = "removed" =>
          notes[i].by \in {"timer", "close", "replaced"})
  /\ \A i \in NoteIds : InDocument(notes, i) ~> ~InDocument(notes, i)

\* C28 case: one notification has been removed by its timers, one has been
\* replaced by a newer one, and the newest is on display.
C28_Witness ==
  /\ \E i \in NoteIds : notes[i].by = "timer"
  /\ \E i \in NoteIds : notes[i].by = "replaced"
  /\ \E i \in NoteIds : InDocument(notes, i)

\* C34 as stated: getCurrentMFE() is null or the name of a loaded MFE,
\* after every sequence of loadMFE and unloadMFE calls that have settled.
C34_CurrentIsLoaded ==
  Idle => (currentMFE = Null \/ loadedMFEs[currentMFE] # NoEntry)

\* C33: a navigation invokes one handler at most, a recovery navigation goes
\* to '/', and when the handler of '/' or '/home' has failed navigate
\* starts no further navigation: nothing is pushed beyond the path of the
\* call itself.  So one navigate call leads to at most one recovery
\* navigation and to at most two handler invocations, whatever the
\* handlers do.
C33_RecoveryTerminates ==
  /\ \A t \in TaskIds :
       /\ tasks[t].invoked <= 1
       /\ tasks[t].origin = "recovery" => tasks[t].path = "/"
  /\ ev.type = "navSettled" =>
       /\ ev.invoked <= 1
       /\ ev.origin = "recovery" => ev.path = "/"
       /\ (ev.cause = "handlerFailed" /\ ev.path \in {"/", "/home"}) =>
            /\ ev.recovery = "-"
            /\ ev.pushed <= IF ev.handler \in {"throws", "none"} /\ ~ev.skip
                            THEN 1 ELSE 0
            /\ \A t \in TaskIds :
                 tasks[t].origin = "recovery" => tasks[t].call # ev.call
       /\ ev.pushed <= 2

\* C33 case: the handler of a route has thrown at once and so has the
\* handler of '/' in the recovery: both pushes are made in the step of the
\* call, and no navigation is left pending.
C33_Witness ==
  /\ ev.type = "navSettled" /\ ev.cause = "handlerFailed"
  /\ ev.path \notin {"/", "/home"} /\ ev.recovery = "throws"
  /\ ev.pushed = 2 /\ Idle

\* C38 as stated: initFederation succeeds at most once per loader, under
\* every interleaving of loadMFE calls: no call of initFederation is
\* fulfilled when federationInitialized is already set.
C38_InitSucceedsOnce ==
  [][ev'.type = "initialized" => ~federationInitialized]_vars

\* C36 as stated: the teardown of a mounted instance is invoked at most
\* once, under every interleaving of unloadMFE, loadMFE and home
\* navigations.
C36_TeardownInvokedOnce ==
  \A i \in InstIds : inst[i].tdCalls <= 1

\* C37 as stated: an unloadMFE that finishes removes no entry but the one
\* it found when it started: the entry a loadMFE has stored in the
\* meantime, for an instance mounted after the unload began, stays in
\* loadedMFEs.
C37_StaleUnloadKeepsNewEntry ==
  [][(ev'.type = "unloadSettled" /\ ev'.cause # "notLoaded") =>
       loadedMFEs[ev'.name].id \in {0, ev'.id}]_vars

\* C35 as stated: unmount() of the object a loadMFE call resolved with
\* tears down the instance that call mounted and no other.
C35_HandleTearsDownOwnInstance ==
  \A t \in TaskIds :
    (tasks[t].kind = "unload" /\ tasks[t].origin = "handle") =>
      tasks[t].id = handle.id

\* C32: no call of _loadManifest is rejected; a call whose fetch was
\* rejected or answered with a status that is not OK (or whose body is not
\* JSON) resolves to the default mapping, mfe1 ->
\* http://localhost:4201/remoteEntry.json and nothing else, and a call that
\* read the file resolves to the mapping of the file.
C32_ManifestNeverFails ==
  \A i \in ManifestIds :
    manifest[i].pc = "done" =>
      /\ manifest[i].settled = "fulfilled"
      /\ manifest[i].fetched \in {"rejected", "notOk", "invalid"} =>
           /\ manifest[i].result = DefaultManifest
           /\ manifest[i].result["mfe1"] =
                "http://localhost:4201/remoteEntry.json"
           /\ manifest[i].result["mfe2"] = Null
      /\ manifest[i].fetched = "ok" =>
           \E b \in ManifestBodies : manifest[i].result = ManifestFile(b)

\* C32 case: one call has settled after a rejected fetch, one after a
\* response that was not OK, and one has read the file.
C32_Witness ==
  /\ \E i \in ManifestIds :
       manifest[i].pc = "done" /\ manifest[i].fetched = "rejected"
  /\ \E i \in ManifestIds :
       manifest[i].pc = "done" /\ manifest[i].fetched = "notOk"
  /\ \E i \in ManifestIds :
       manifest[i].pc = "done" /\ manifest[i].fetched = "ok"

\* C31: a mount that has resolved has added its app-root to the container,
\* the unmount of its result has removed that app-root, and when every
\* mount that was made has resolved and been unmounted the container holds
\* no app-root.
C31_MountThenUnmountLeavesNoRoot ==
  /\ \A m \in MountIds :
       /\ mfe1.mounts[m].pc = "mounted" => m \in mfe1.appRoots
       /\ mfe1.mounts[m].pc \in {"unmounted", "free", "notFound"} =>
            m \notin mfe1.appRoots
  /\ (\A m \in MountIds :
        mfe1.mounts[m].pc \in {"unmounted", "free", "notFound"})
     => mfe1.appRoots = {}

\* C31 case: a mount by element and a mount by selector have resolved and
\* been unmounted, and the container is empty.
C31_Witness ==
  /\ \E m \in MountIds :
       mfe1.mounts[m].pc = "unmounted" /\ mfe1.mounts[m].arg = "element"
  /\ \E m \in MountIds :
       mfe1.mounts[m].pc = "unmounted" /\ mfe1.mounts[m].arg = "#test-container"
  /\ mfe1.appRoots = {}

\* C39 as stated: when the vanilla shell has imported the bootstrap
\* module, the module has not bootstrapped the application by itself, and
\* bootstrapApplication has been called once for each mount that got to it.
C39_BootstrappedOnlyByMount ==
  mfe1.importedBy = "shell" =>
    /\ ~mfe1.autoBootstrapped
    /\ mfe1.bootstraps =
         Cardinality({m \in MountIds :
                        mfe1.mounts[m].pc \notin {"free", "notFound"}})

====
